---- MODULE Spec2Model ----
(***************************************************************************)
(* Model of src/tiff/ifd.rs: the TIFF tag catalog (Tag::from_u16), the     *)
(* Value accessors (as_u32, as_u32_vec) and the resolution of an IFD entry *)
(* against the decoder's stream (Entry::val).                              *)
(***************************************************************************)
EXTENDS Integers, Sequences, FiniteSets

VARIABLES
    entry,       \* the Entry being resolved: [type_, count, offset]
    stream,      \* the bytes of the decoder's underlying stream
    byte_order,  \* the decoder's byte order, "BE" or "LE"
    cursor,      \* the decoder's stream position (0-based)
    before,      \* the cursor as the caller last left it, before any later call of val
    last,        \* the last step: "new", "val" or "seek"
    result,      \* what the last call of val returned, None before any call
    prev,        \* what the call of val before the last one returned, if no fault hit it
    ops,         \* the decoder operations the last call of val issued, in order
    fault,       \* which decoder operation of the last call hit an I/O error (0: none)
    value,       \* the Value an accessor is applied to
    accessed,    \* what the accessor returned, None before
    tagCode,     \* the u16 handed to Tag::from_u16
    tag          \* what Tag::from_u16 returned, None before

vars == <<entry, stream, byte_order, cursor, before, last, result, prev, ops, fault,
          value, accessed, tagCode, tag>>

\* ---------------------------------------------------------------- bounds

\* Largest element count of an entry.
MaxCount == 3
\* Largest byte in an entry's 4-byte slot.
MaxByte == 1
\* Length of the decoder's stream in bytes.
FileLen == 10
\* Longest List of a Value handed to an accessor.
MaxLen == 2
\* Largest integer in a Value handed to an accessor.
MaxVal == 1
\* Tag codes 0..MaxLowCode are tried, and the codes around Copyright and the last u16.
MaxLowCode == 600

\* ---------------------------------------------------------------- values

None == [none |-> TRUE]

\* enum Value
Unsigned(v) == [tag |-> "Unsigned", val |-> v]
List(vec) == [tag |-> "List", vec |-> vec]

\* ImageResult<T>
Ok(v) == [ok |-> TRUE, value |-> v]
Err(kind) == [ok |-> FALSE, err |-> kind]

\* enum Type, in the order of its numeric codes 1..12
Type ==
    <<"BYTE", "ASCII", "SHORT", "LONG", "RATIONAL", "SBYTE", "UNDEFINED",
      "SSHORT", "SLONG", "SRATIONAL", "FLOAT", "DOUBLE">>

Types == {Type[i] : i \in 1..Len(Type)}

\* ---------------------------------------------------------------- byte decoding

\* ByteOrder-aware decoding of 2 and of 4 bytes, as the stream module reads them.
u16_of(b, bo) ==
    IF bo = "BE" THEN b[1] * 256 + b[2] ELSE b[2] * 256 + b[1]

u32_of(b, bo) ==
    IF bo = "BE"
    THEN b[1] * 16777216 + b[2] * 65536 + b[3] * 256 + b[4]
    ELSE b[4] * 16777216 + b[3] * 65536 + b[2] * 256 + b[1]

\* SmartReader over io::Cursor<Vec<u8>>: a read of w bytes at pos, failing at the end.
SmartReader_wrap(buf, bo) == [buf |-> buf, pos |-> 0, bo |-> bo]

SmartReader_read(r, w) ==
    IF r.pos + w > Len(r.buf)
    THEN [ok |-> FALSE, val |-> 0, r |-> [r EXCEPT !.pos = Len(r.buf)]]
    ELSE LET b == SubSeq(r.buf, r.pos + 1, r.pos + w)
         IN  [ok |-> TRUE,
              val |-> IF w = 2 THEN u16_of(b, r.bo) ELSE u32_of(b, r.bo),
              r |-> [r EXCEPT !.pos = @ + w]]

read_u16(r) == SmartReader_read(r, 2)
read_u32(r) == SmartReader_read(r, 4)

\* ---------------------------------------------------------------- the decoder

\* The decoder as val sees it: d = [stream, bo, cursor, ops, fault].  The operation
\* whose index in the call equals d.fault fails with an I/O error.
Faulted(d) == d.fault = Len(d.ops) + 1

byte_order_of(d) == d.bo

\* TIFFDecoder::goto_offset: an absolute seek.
goto_offset(d, offset) ==
    IF Faulted(d)
    THEN [ok |-> FALSE,
          d |-> [d EXCEPT !.ops = Append(@, [op |-> "seek", arg |-> offset, ok |-> FALSE])]]
    ELSE [ok |-> TRUE,
          d |-> [d EXCEPT !.cursor = offset,
                          !.ops = Append(@, [op |-> "seek", arg |-> offset, ok |-> TRUE])]]

\* A sequential read of w bytes at the cursor in the decoder's byte order.
decoder_read(d, w, name) ==
    IF Faulted(d)
    THEN [ok |-> FALSE, val |-> 0,
          d |-> [d EXCEPT !.ops = Append(@, [op |-> name, arg |-> d.cursor, ok |-> FALSE])]]
    ELSE IF d.cursor + w > Len(d.stream)
    THEN [ok |-> FALSE, val |-> 0,
          d |-> [d EXCEPT !.cursor = IF @ >= Len(d.stream) THEN @ ELSE Len(d.stream),
                          !.ops = Append(@, [op |-> name, arg |-> d.cursor, ok |-> FALSE])]]
    ELSE LET b == SubSeq(d.stream, d.cursor + 1, d.cursor + w)
         IN  [ok |-> TRUE,
              val |-> IF w = 2 THEN u16_of(b, d.bo) ELSE u32_of(b, d.bo),
              d |-> [d EXCEPT !.cursor = @ + w,
                              !.ops = Append(@, [op |-> name, arg |-> d.cursor, ok |-> TRUE])]]

read_short(d) == decoder_read(d, 2, "read_short")
read_long(d) == decoder_read(d, 4, "read_long")

\* ---------------------------------------------------------------- Tag

\* The tags! catalog: each variant with its code, in source order.
Tags ==
    <<
      [tag |-> "NewSubfileType", val |-> 254],
      [tag |-> "SubfileType", val |-> 255],
      [tag |-> "ImageWidth", val |-> 256],
      [tag |-> "ImageLength", val |-> 257],
      [tag |-> "BitsPerSample", val |-> 258],
      [tag |-> "Compression", val |-> 259],
      [tag |-> "PhotometricInterpretation", val |-> 262],
      [tag |-> "Threshholding", val |-> 263],
      [tag |-> "CellWidth", val |-> 264],
      [tag |-> "CellLength", val |-> 265],
      [tag |-> "FillOrder", val |-> 266],
      [tag |-> "DocumentName", val |-> 269],
      [tag |-> "ImageDescription", val |-> 270],
      [tag |-> "Make", val |-> 271],
      [tag |-> "Model", val |-> 272],
      [tag |-> "StripOffsets", val |-> 273],
      [tag |-> "Orientation", val |-> 274],
      [tag |-> "SamplesPerPixel", val |-> 277],
      [tag |-> "RowsPerStrip", val |-> 278],
      [tag |-> "StripByteCounts", val |-> 279],
      [tag |-> "MinSampleValue", val |-> 280],
      [tag |-> "MaxSampleValue", val |-> 281],
      [tag |-> "XResolution", val |-> 282],
      [tag |-> "YResolution", val |-> 283],
      [tag |-> "PlanarConfiguration", val |-> 284],
      [tag |-> "PageName", val |-> 285],
      [tag |-> "XPosition", val |-> 286],
      [tag |-> "YPosition", val |-> 287],
      [tag |-> "FreeOffsets", val |-> 288],
      [tag |-> "FreeByteCounts", val |-> 289],
      [tag |-> "GrayResponseUnit", val |-> 290],
      [tag |-> "GrayResponseCurve", val |-> 291],
      [tag |-> "T4Options", val |-> 292],
      [tag |-> "T6Options", val |-> 293],
      [tag |-> "ResolutionUnit", val |-> 296],
      [tag |-> "PageNumber", val |-> 297],
      [tag |-> "TransferFunction", val |-> 301],
      [tag |-> "Software", val |-> 305],
      [tag |-> "DateTime", val |-> 306],
      [tag |-> "Artist", val |-> 315],
      [tag |-> "HostComputer", val |-> 316],
      [tag |-> "Predictor", val |-> 317],
      [tag |-> "WhitePoint", val |-> 318],
      [tag |-> "PrimaryChromaticities", val |-> 319],
      [tag |-> "ColorMap", val |-> 320],
      [tag |-> "HalftoneHints", val |-> 321],
      [tag |-> "TileWidth", val |-> 322],
      [tag |-> "TileLength", val |-> 323],
      [tag |-> "TileOffsets", val |-> 324],
      [tag |-> "TileByteCounts", val |-> 325],
      [tag |-> "InkSet", val |-> 332],
      [tag |-> "InkNames", val |-> 333],
      [tag |-> "NumberOfInks", val |-> 334],
      [tag |-> "DotRange", val |-> 336],
      [tag |-> "TargetPrinter", val |-> 337],
      [tag |-> "ExtraSamples", val |-> 338],
      [tag |-> "SampleFormat", val |-> 339],
      [tag |-> "SMinSampleValue", val |-> 340],
      [tag |-> "SMaxSampleValue", val |-> 341],
      [tag |-> "TransferRange", val |-> 342],
      [tag |-> "JPEGProc", val |-> 512],
      [tag |-> "JPEGInterchangeFormat", val |-> 513],
      [tag |-> "JPEGInterchangeFormatLngth", val |-> 514],
      [tag |-> "JPEGRestartInterval", val |-> 515],
      [tag |-> "JPEGLosslessPredictors", val |-> 517],
      [tag |-> "JPEGPointTransforms", val |-> 518],
      [tag |-> "JPEGQTables", val |-> 519],
      [tag |-> "JPEGDCTables", val |-> 520],
      [tag |-> "JPEGACTables", val |-> 521],
      [tag |-> "YCbCrCoefficients", val |-> 529],
      [tag |-> "YCbCrSubSampling", val |-> 530],
      [tag |-> "YCbCrPositioning", val |-> 531],
      [tag |-> "ReferenceBlackWhite", val |-> 532],
      [tag |-> "Copyright", val |-> 33432]
    >>

Named(variant) == [variant |-> variant]
Unknown(n) == [variant |-> "Unknown", code |-> n]

\* $(if n == $val { Tag::$tag } else)* { Tag::Unknown(n) }, from the i-th entry on.
RECURSIVE from_u16_chain(_, _)
from_u16_chain(n, i) ==
    IF i > Len(Tags) THEN Unknown(n)
    ELSE IF n = Tags[i].val THEN Named(Tags[i].tag)
    ELSE from_u16_chain(n, i + 1)

\* Mutant: the chain misses its first entry.
from_u16_skip_first(n) == from_u16_chain(n, 2)

\* Tag::from_u16
from_u16(n) == from_u16_chain(n, 1)

\* ---------------------------------------------------------------- Value accessors

\* Value::as_u32
as_u32(self) ==
    IF self.tag = "Unsigned" THEN Ok(self.val) ELSE Err("FormatError")

\* for v in vec.into_iter() { new_vec.push(try!(v.as_u32())) }
RECURSIVE as_u32_vec_loop(_, _, _)
as_u32_vec_loop(vec, i, new_vec) ==
    IF i > Len(vec) THEN Ok(new_vec)
    ELSE LET a == as_u32(vec[i])
         IN  IF ~a.ok THEN a
             ELSE as_u32_vec_loop(vec, i + 1, Append(new_vec, a.value))

\* Mutant: elements are reduced with as_u32_vec, so nested lists are flattened.
RECURSIVE as_u32_vec_flatten(_)
RECURSIVE as_u32_vec_flatten_loop(_, _, _)
as_u32_vec_flatten_loop(vec, i, new_vec) ==
    IF i > Len(vec) THEN Ok(new_vec)
    ELSE LET a == as_u32_vec_flatten(vec[i])
         IN  IF ~a.ok THEN a
             ELSE as_u32_vec_flatten_loop(vec, i + 1, new_vec \o a.value)

as_u32_vec_flatten(self) ==
    IF self.tag = "List" THEN as_u32_vec_flatten_loop(self.vec, 1, <<>>)
    ELSE Ok(<<self.val>>)

\* Value::as_u32_vec
as_u32_vec(self) ==
    IF self.tag = "List" THEN as_u32_vec_loop(self.vec, 1, <<>>)
    ELSE Ok(<<self.val>>)

\* ---------------------------------------------------------------- Entry

Entry_new(type_, count, offset) == [type_ |-> type_, count |-> count, offset |-> offset]

\* Entry::r: a reader over the entry's own 4-byte slot.
Entry_r(self, bo) == SmartReader_wrap(self.offset, bo)

\* What val returns: the result and the decoder as the call leaves it.
Ret(res, d) == [res |-> res, d |-> d]

\* Mutant: the byte is taken from the slot read as a number, so from its low end.
val_BYTE_1_low_byte(self, d) ==
    Ret(Ok(Unsigned(read_u32(Entry_r(self, byte_order_of(d))).val % 256)), d)

\* (Type::BYTE, 1)
val_BYTE_1(self, d) == Ret(Ok(Unsigned(self.offset[1])), d)

\* Mutant: the slot is read big-endian whatever the file's byte order.
val_SHORT_1_big_endian(self, d) ==
    LET a == read_u16(Entry_r(self, "BE"))
    IN  IF a.ok THEN Ret(Ok(Unsigned(a.val)), d) ELSE Ret(Err("IoError"), d)

\* (Type::SHORT, 1)
val_SHORT_1(self, d) ==
    LET a == read_u16(Entry_r(self, byte_order_of(d)))
    IN  IF a.ok THEN Ret(Ok(Unsigned(a.val)), d) ELSE Ret(Err("IoError"), d)

\* Mutant: the two values are read from the decoder's stream, not from the slot.
val_SHORT_2_from_stream(self, d) ==
    LET a == read_short(d)
        b == read_short(a.d)
    IN  IF ~a.ok THEN Ret(Err("IoError"), a.d)
        ELSE IF ~b.ok THEN Ret(Err("IoError"), b.d)
        ELSE Ret(Ok(List(<<Unsigned(a.val), Unsigned(b.val)>>)), b.d)

\* (Type::SHORT, 2)
val_SHORT_2(self, d) ==
    LET a == read_u16(Entry_r(self, byte_order_of(d)))
        b == read_u16(a.r)
    IN  IF ~a.ok THEN Ret(Err("IoError"), d)
        ELSE IF ~b.ok THEN Ret(Err("IoError"), d)
        ELSE Ret(Ok(List(<<Unsigned(a.val), Unsigned(b.val)>>)), d)

\* Mutant: the loop runs over 1 .. n, one read short.
RECURSIVE read_short_loop_one_less(_, _, _)
read_short_loop_one_less(d, n, v) ==
    IF n <= 1 THEN Ret(Ok(List(v)), d)
    ELSE LET a == read_short(d)
         IN  IF ~a.ok THEN Ret(Err("IoError"), a.d)
             ELSE read_short_loop_one_less(a.d, n - 1, Append(v, Unsigned(a.val)))

\* for _ in 0 .. n { v.push(Unsigned(try!(decoder.read_short()) as u32)) }; Ok(List(v))
RECURSIVE read_short_loop(_, _, _)
read_short_loop(d, n, v) ==
    IF n = 0 THEN Ret(Ok(List(v)), d)
    ELSE LET a == read_short(d)
         IN  IF ~a.ok THEN Ret(Err("IoError"), a.d)
             ELSE read_short_loop(a.d, n - 1, Append(v, Unsigned(a.val)))

\* (Type::SHORT, n): the slot is an offset into the stream.
val_SHORT_n(self, d) ==
    LET o == read_u32(Entry_r(self, byte_order_of(d)))
    IN  IF ~o.ok THEN Ret(Err("IoError"), d)
        ELSE LET s == goto_offset(d, o.val)
             IN  IF ~s.ok THEN Ret(Err("IoError"), s.d)
                 ELSE read_short_loop(s.d, self.count, <<>>)

\* Mutant: a LONG that fills the slot is taken for an offset and read from the stream.
val_LONG_1_seeks(self, d) ==
    LET o == read_u32(Entry_r(self, byte_order_of(d)))
        s == goto_offset(d, o.val)
        a == read_long(s.d)
    IN  IF ~o.ok THEN Ret(Err("IoError"), d)
        ELSE IF ~s.ok THEN Ret(Err("IoError"), s.d)
        ELSE IF ~a.ok THEN Ret(Err("IoError"), a.d)
        ELSE Ret(Ok(Unsigned(a.val)), a.d)

\* (Type::LONG, 1)
val_LONG_1(self, d) ==
    LET a == read_u32(Entry_r(self, byte_order_of(d)))
    IN  IF a.ok THEN Ret(Ok(Unsigned(a.val)), d) ELSE Ret(Err("IoError"), d)

\* Mutant: a failed read ends the loop with the elements read so far.
RECURSIVE read_long_loop_partial(_, _, _)
read_long_loop_partial(d, n, v) ==
    IF n = 0 THEN Ret(Ok(List(v)), d)
    ELSE LET a == read_long(d)
         IN  IF ~a.ok THEN Ret(Ok(List(v)), a.d)
             ELSE read_long_loop_partial(a.d, n - 1, Append(v, Unsigned(a.val)))

\* for _ in 0 .. n { v.push(Unsigned(try!(decoder.read_long()))) }; Ok(List(v))
RECURSIVE read_long_loop(_, _, _)
read_long_loop(d, n, v) ==
    IF n = 0 THEN Ret(Ok(List(v)), d)
    ELSE LET a == read_long(d)
         IN  IF ~a.ok THEN Ret(Err("IoError"), a.d)
             ELSE read_long_loop(a.d, n - 1, Append(v, Unsigned(a.val)))

\* Mutant: the seek is relative to the current cursor.
val_LONG_n_relative(self, d) ==
    LET o == read_u32(Entry_r(self, byte_order_of(d)))
    IN  IF ~o.ok THEN Ret(Err("IoError"), d)
        ELSE LET s == goto_offset(d, d.cursor + o.val)
             IN  IF ~s.ok THEN Ret(Err("IoError"), s.d)
                 ELSE read_long_loop(s.d, self.count, <<>>)

\* (Type::LONG, n): the slot is an offset into the stream.
val_LONG_n(self, d) ==
    LET o == read_u32(Entry_r(self, byte_order_of(d)))
    IN  IF ~o.ok THEN Ret(Err("IoError"), d)
        ELSE LET s == goto_offset(d, o.val)
             IN  IF ~s.ok THEN Ret(Err("IoError"), s.d)
                 ELSE read_long_loop(s.d, self.count, <<>>)

\* Mutant: the BYTE arm matches on the type alone, whatever the count.
val_BYTE_any_count(self, d) ==
    IF self.type_ = "BYTE" THEN val_BYTE_1(self, d)
    ELSE IF self.type_ = "SHORT" /\ self.count = 1 THEN val_SHORT_1(self, d)
    ELSE IF self.type_ = "SHORT" /\ self.count = 2 THEN val_SHORT_2(self, d)
    ELSE IF self.type_ = "SHORT" THEN val_SHORT_n(self, d)
    ELSE IF self.type_ = "LONG" /\ self.count = 1 THEN val_LONG_1(self, d)
    ELSE IF self.type_ = "LONG" THEN val_LONG_n(self, d)
    ELSE Ret(Err("UnsupportedError"), d)

\* Entry::val: the match on (self.type_, self.count), arms in source order.
val(self, d) ==
    IF self.type_ = "BYTE" /\ self.count = 1 THEN val_BYTE_1(self, d)
    ELSE IF self.type_ = "SHORT" /\ self.count = 1 THEN val_SHORT_1(self, d)
    ELSE IF self.type_ = "SHORT" /\ self.count = 2 THEN val_SHORT_2(self, d)
    ELSE IF self.type_ = "SHORT" THEN val_SHORT_n(self, d)
    ELSE IF self.type_ = "LONG" /\ self.count = 1 THEN val_LONG_1(self, d)
    ELSE IF self.type_ = "LONG" THEN val_LONG_n(self, d)
    ELSE Ret(Err("UnsupportedError"), d)

\* ---------------------------------------------------------------- resolution

Bytes == 0..MaxByte
Slots == {<<a, b, c, e>> : a \in Bytes, b \in Bytes, c \in Bytes, e \in Bytes}
Entries == {Entry_new(t, n, s) : t \in Types, n \in 0..MaxCount, s \in Slots}

\* The stream's bytes: pairwise different (7 is coprime to 256).
File == [i \in 1..FileLen |-> (i * 7 + 3) % 256]

\* The state of the parts a specification leaves alone.
IdleEntry ==
    /\ entry = Entry_new("BYTE", 1, <<0, 0, 0, 0>>)
    /\ stream = File
    /\ byte_order = "BE"
    /\ cursor = 0 /\ before = 0 /\ last = "new"
    /\ result = None /\ prev = None
    /\ ops = <<>>
    /\ fault = 0

IdleValue == value = None /\ accessed = None

IdleTag == tagCode = 0 /\ tag = None

Init ==
    /\ entry \in Entries
    /\ stream = File
    /\ byte_order \in {"BE", "LE"}
    /\ cursor = 0 /\ before = 0 /\ last = "new"
    /\ result = None /\ prev = None
    /\ ops = <<>>
    /\ fault = 0
    /\ IdleValue /\ IdleTag

\* A call of entry.val(decoder); f is the decoder operation that fails, if any.
Val(f) ==
    LET d == [stream |-> stream, bo |-> byte_order, cursor |-> cursor,
              ops |-> <<>>, fault |-> f]
        r == val(entry, d)
    IN  /\ result' = r.res
        /\ cursor' = r.d.cursor
        /\ ops' = r.d.ops
        /\ before' = cursor
        /\ last' = "val"
        /\ prev' = IF fault = 0 THEN result ELSE None
        /\ fault' = IF f \in 1..Len(r.d.ops) THEN f ELSE 0
        /\ UNCHANGED <<entry, stream, byte_order, value, accessed, tagCode, tag>>

\* Where the caller moves the cursor: the start, the middle and the end of the stream.
SeekTargets == {0, FileLen \div 2, FileLen}

\* The caller repositions the decoder between resolutions.
CallerSeek(p) ==
    /\ cursor' = p /\ before' = p
    /\ last' = "seek"
    /\ UNCHANGED <<entry, stream, byte_order, result, prev, ops, fault,
                   value, accessed, tagCode, tag>>

Next ==
    \/ \E f \in 0..(MaxCount + 1) : Val(f)
    \/ \E p \in SeekTargets : CallerSeek(p)

Spec == Init /\ [][Next]_vars

\* ---------------------------------------------------------------- accessors, applied

Scalars == {Unsigned(v) : v \in 0..MaxVal}
SeqsOf(S) == UNION {[1..k -> S] : k \in 0..MaxLen}
\* Values of depth at most 1 and at most 2.
Flat == Scalars \cup {List(s) : s \in SeqsOf(Scalars)}
Values == Scalars \cup {List(s) : s \in SeqsOf(Flat)}

InitValue ==
    /\ value \in Values
    /\ accessed = None
    /\ IdleEntry /\ IdleTag

As_u32 ==
    /\ accessed' = [by |-> "as_u32", res |-> as_u32(value)]
    /\ UNCHANGED <<entry, stream, byte_order, cursor, before, last, result, prev, ops,
                   fault, value, tagCode, tag>>

As_u32_vec ==
    /\ accessed' = [by |-> "as_u32_vec", res |-> as_u32_vec(value)]
    /\ UNCHANGED <<entry, stream, byte_order, cursor, before, last, result, prev, ops,
                   fault, value, tagCode, tag>>

NextValue == As_u32 \/ As_u32_vec

SpecValue == InitValue /\ [][NextValue]_vars

\* ---------------------------------------------------------------- tag lookup, applied

TagCodes == (0..MaxLowCode) \cup {33431, 33432, 33433, 65535}

InitTag ==
    /\ tagCode \in TagCodes
    /\ tag = None
    /\ IdleEntry /\ IdleValue

From_u16 ==
    /\ tag' = from_u16(tagCode)
    /\ UNCHANGED <<entry, stream, byte_order, cursor, before, last, result, prev, ops,
                   fault, value, accessed, tagCode>>

NextTag == From_u16

SpecTag == InitTag /\ [][NextTag]_vars

\* ---------------------------------------------------------------- properties

Returned == result # None
ReturnedOk == result # None /\ result.ok

IsOffsetBacked(e) ==
    \/ e.type_ = "SHORT" /\ e.count \notin {1, 2}
    \/ e.type_ = "LONG" /\ e.count # 1

IsInline(e) ==
    \/ e.type_ = "BYTE" /\ e.count = 1
    \/ e.type_ = "SHORT" /\ e.count \in {1, 2}
    \/ e.type_ = "LONG" /\ e.count = 1

IsUnsupported(e) ==
    \/ e.type_ \notin {"BYTE", "SHORT", "LONG"}
    \/ e.type_ = "BYTE" /\ e.count # 1

\* The byte width of one element of each on-disk type.
ElementWidth(t) ==
    CASE t \in {"BYTE", "ASCII", "SBYTE", "UNDEFINED"} -> 1
      [] t \in {"SHORT", "SSHORT"} -> 2
      [] t \in {"LONG", "SLONG", "FLOAT"} -> 4
      [] OTHER -> 8

\* The slot as an unsigned 32-bit number in the byte order bo.
SlotNumber(e, bo) ==
    IF bo = "BE"
    THEN ((e.offset[1] * 256 + e.offset[2]) * 256 + e.offset[3]) * 256 + e.offset[4]
    ELSE ((e.offset[4] * 256 + e.offset[3]) * 256 + e.offset[2]) * 256 + e.offset[1]

\* The unsigned number of w bytes at stream position p (0-based) in the byte order bo.
RECURSIVE StreamNumber(_, _, _)
StreamNumber(p, w, bo) ==
    IF w = 0 THEN 0
    ELSE IF bo = "BE" THEN StreamNumber(p, w - 1, bo) * 256 + stream[p + w]
    ELSE StreamNumber(p + 1, w - 1, bo) * 256 + stream[p + 1]

AllOpsOk == \A i \in 1..Len(ops) : ops[i].ok
SomeOpFailed == \E i \in 1..Len(ops) : ~ops[i].ok

\* C1: when every decoder operation succeeds, resolving an offset-backed entry
\* ((SHORT, n) with n not 1 or 2, (LONG, n) with n not 1) seeks to the offset O the
\* slot encodes in the file's byte order, then issues exactly n reads (read_short
\* or read_long) one after the other, returns the List of the n Unsigned values
\* read, in order, and leaves the cursor at O + 2n (SHORT) or O + 4n (LONG),
\* wherever the cursor was before.
C1_OffsetBackedReads ==
    (Returned /\ IsOffsetBacked(entry) /\ AllOpsOk) =>
        LET O == SlotNumber(entry, byte_order)
            n == entry.count
            w == IF entry.type_ = "SHORT" THEN 2 ELSE 4
            name == IF entry.type_ = "SHORT" THEN "read_short" ELSE "read_long"
        IN  /\ Len(ops) = n + 1
            /\ ops[1] = [op |-> "seek", arg |-> O, ok |-> TRUE]
            /\ \A i \in 1..n :
                  ops[i + 1] = [op |-> name, arg |-> O + (i - 1) * w, ok |-> TRUE]
            /\ result.ok
            /\ result.value.tag = "List"
            /\ Len(result.value.vec) = n
            /\ \A i \in 1..n :
                  result.value.vec[i] =
                      Unsigned(StreamNumber(O + (i - 1) * w, w, byte_order))
            /\ (last = "val" => cursor = O + w * n)

C1_Witness ==
    /\ last = "val" /\ ReturnedOk
    /\ entry.type_ = "SHORT" /\ entry.count = 3
    /\ byte_order = "LE"
    /\ SlotNumber(entry, byte_order) = 1
    /\ before = 5
    /\ cursor = 7
    /\ Len(result.value.vec) = 3

\* C2: resolution fails with the unsupported-data-type error, and returns no
\* Value, for every type outside BYTE, SHORT and LONG with any count, and for
\* BYTE with any count other than 1.
C2_UnsupportedRejected ==
    (Returned /\ IsUnsupported(entry)) => result = Err("UnsupportedError")

C2_Witness ==
    /\ Returned
    /\ entry.type_ = "BYTE" /\ entry.count = 2
    /\ result = Err("UnsupportedError")

\* C3: resolving the same entry twice against the same decoder, the stream's
\* contents and the byte order unchanged and no I/O fault in either call, yields
\* equal results, although the first resolution (or the caller) moved the cursor.
C3_RepeatedResolutionAgrees ==
    (Returned /\ prev # None /\ fault = 0) => result = prev

C3_Witness ==
    /\ last = "val" /\ ReturnedOk /\ prev = result
    /\ entry.type_ = "LONG" /\ entry.count = 2
    /\ SlotNumber(entry, byte_order) = 1
    /\ before = 9
    /\ cursor = 9

\* C4: in the resolution of an offset-backed entry the first failing decoder
\* operation is the last one issued (nothing follows it, it is not retried) and
\* the call returns the I/O failure, never a Value.
C4_FirstFailureIsTerminal ==
    (Returned /\ IsOffsetBacked(entry) /\ SomeOpFailed) =>
        /\ result = Err("IoError")
        /\ ~ops[Len(ops)].ok
        /\ \A i \in 1..(Len(ops) - 1) : ops[i].ok

C4_Witness ==
    /\ Returned
    /\ entry.type_ = "LONG" /\ entry.count = 3
    /\ SlotNumber(entry, byte_order) = 0
    /\ fault = 3
    /\ Len(ops) = 3
    /\ ops[1].ok /\ ops[2].ok /\ ~ops[3].ok
    /\ result = Err("IoError")

\* C5: (SHORT, 1) yields the scalar of slot bytes 0..1, (SHORT, 2) the two
\* scalars of bytes 0..1 and 2..3, (LONG, 1) the scalar of all four bytes, each
\* in the file's byte order, for every slot.
C5_InlineDecoding ==
    Returned =>
        LET b == entry.offset
            be == byte_order = "BE"
            lo == IF be THEN b[1] * 256 + b[2] ELSE b[2] * 256 + b[1]
            hi == IF be THEN b[3] * 256 + b[4] ELSE b[4] * 256 + b[3]
        IN  /\ (entry.type_ = "SHORT" /\ entry.count = 1) =>
                result = Ok(Unsigned(lo))
            /\ (entry.type_ = "SHORT" /\ entry.count = 2) =>
                result = Ok(List(<<Unsigned(lo), Unsigned(hi)>>))
            /\ (entry.type_ = "LONG" /\ entry.count = 1) =>
                result = Ok(Unsigned(IF be THEN lo * 65536 + hi ELSE hi * 65536 + lo))

C5_Witness ==
    /\ Returned
    /\ entry.type_ = "SHORT" /\ entry.count = 1
    /\ entry.offset = <<0, 1, 1, 1>>
    /\ byte_order = "LE"
    /\ result = Ok(Unsigned(256))

\* C6: (BYTE, 1) yields slot byte 0 as a scalar, and a resolution that differs
\* only in the byte order or in slot bytes 1..3 returns the same Value.
C6_ByteIgnoresOrder ==
    (Returned /\ entry.type_ = "BYTE" /\ entry.count = 1) =>
        /\ result = Ok(Unsigned(entry.offset[1]))
        /\ \A bo \in {"BE", "LE"} : \A s \in Slots :
              s[1] = entry.offset[1] =>
                  val(Entry_new("BYTE", 1, s),
                      [stream |-> stream, bo |-> bo, cursor |-> cursor,
                       ops |-> <<>>, fault |-> 0]).res = result

C6_Witness ==
    /\ Returned
    /\ entry = Entry_new("BYTE", 1, <<1, 0, 0, 0>>)
    /\ byte_order = "LE"
    /\ result = Ok(Unsigned(1))

\* C9 as stated: the slot is used as an offset (a seek is issued) only when
\* width x count exceeds 4 bytes or the entry is a SHORT array of length other
\* than 2; every other (type, count), counts of 0 included, issues no seek.
C9_SeekOnlyWhenLarge ==
    (Returned /\ Len(ops) > 0) =>
        \/ ElementWidth(entry.type_) * entry.count > 4
        \/ entry.type_ = "SHORT" /\ entry.count # 2

\* C9, amended: a seek is issued only when width x count exceeds 4 bytes, or
\* for a SHORT array of length other than 2, or for a LONG array of length 0.
C9_SeekOnlyWhenLargeOrEmptyLong ==
    (Returned /\ Len(ops) > 0) =>
        \/ ElementWidth(entry.type_) * entry.count > 4
        \/ entry.type_ = "SHORT" /\ entry.count # 2
        \/ entry.type_ = "LONG" /\ entry.count = 0

C9_Witness ==
    /\ ReturnedOk
    /\ entry.type_ = "LONG" /\ entry.count = 0
    /\ ops = <<[op |-> "seek", arg |-> SlotNumber(entry, byte_order), ok |-> TRUE]>>
    /\ result = Ok(List(<<>>))

\* C10: an inline entry ((BYTE, 1), (SHORT, 1), (SHORT, 2), (LONG, 1)) and an
\* unsupported one issue no seek and no read on the decoder and leave the cursor
\* where the caller, or the resolution before, had put it.
C10_InlineLeavesCursor ==
    (Returned /\ (IsInline(entry) \/ IsUnsupported(entry))) =>
        /\ ops = <<>>
        /\ cursor = before

C10_Witness ==
    /\ last = "val" /\ ReturnedOk
    /\ entry.type_ = "SHORT" /\ entry.count = 2
    /\ prev = result
    /\ before = 5
    /\ cursor = 5

\* C7: as_u32 gives v on Unsigned(v) and a format error on a List; as_u32_vec
\* gives <<v>> on Unsigned(v), and on a List gives the elements' integers in
\* order when every element is an Unsigned (the empty sequence for the empty
\* List) and a format error otherwise.
C7_AccessorLaws ==
    accessed # None =>
        /\ (accessed.by = "as_u32" /\ value.tag = "Unsigned") =>
              accessed.res = Ok(value.val)
        /\ (accessed.by = "as_u32" /\ value.tag = "List") =>
              accessed.res = Err("FormatError")
        /\ (accessed.by = "as_u32_vec" /\ value.tag = "Unsigned") =>
              accessed.res = Ok(<<value.val>>)
        /\ (accessed.by = "as_u32_vec" /\ value.tag = "List") =>
              IF \A i \in 1..Len(value.vec) : value.vec[i].tag = "Unsigned"
              THEN accessed.res = Ok([i \in 1..Len(value.vec) |-> value.vec[i].val])
              ELSE accessed.res = Err("FormatError")

C7_Witness ==
    /\ accessed # None
    /\ accessed.by = "as_u32_vec"
    /\ value = List(<<Unsigned(1), List(<<Unsigned(0)>>)>>)
    /\ accessed.res = Err("FormatError")

\* C8: from_u16 returns the named variant for every code of the catalog and
\* Unknown carrying the code for every other code, and no other code gives the
\* same Tag.
C8_TagLookup ==
    tag # None =>
        /\ \A i \in 1..Len(Tags) : Tags[i].val = tagCode => tag = Named(Tags[i].tag)
        /\ (\A i \in 1..Len(Tags) : Tags[i].val # tagCode) => tag = Unknown(tagCode)
        /\ \A c \in TagCodes : from_u16(c) = tag => c = tagCode

C8_Witness ==
    /\ tagCode = 33432
    /\ tag = Named("Copyright")

====
